---- MODULE Spec2Model ----
(***************************************************************************)
(* Model of the effect-solutions command-line tool (packages/cli cli.ts,   *)
(* here src/unnamed/part_004): the `show` command from argument parsing to *)
(* process exit, the `list` rendering with its word wrap and the inline    *)
(* code colorization; and of the OG image generator (generate-og script,   *)
(* here src/unnamed/part_003).                                             *)
(*                                                                         *)
(* A JavaScript string is a sequence of one-character strings, so that     *)
(* trim, split and the slug comparison work on characters.                 *)
(***************************************************************************)
EXTENDS Integers, Sequences, FiniteSets, TLC

VARIABLES
    pc,        \* position of the `show` run: main, handler, rendered, failed, ...
    argv,      \* the positional arguments given after `show`
    outcome,   \* what Effect.try(() => renderDocs(slugs)) produced
    stdout,    \* values written with Console.log, in order
    stderr,    \* values written with Console.error, in order
    exitCode,  \* -1 while the process runs, else the process's exit code
    wpc,       \* position of a wrapText call: input, wrapped
    wtext,     \* wrapText's text argument
    wwidth,    \* wrapText's maxWidth argument
    wlines,    \* wrapText's return value
    lpc,       \* position of a renderDocList call: input, rendered
    columns,   \* process.stdout.columns: <<>> when not a number, else <<n>>
    listing,   \* renderDocList's return value, as its lines
    cpc,       \* position of a colorizeCodeReferences call: input, colorized
    ctext,     \* colorizeCodeReferences's text argument
    colored,   \* colorizeCodeReferences's return value
    opc,       \* position of the OG image generator's run
    docSlugs,  \* the slugs of getAllDocs(), in its order
    ogOnly,    \* the pieces of process.env.OG_ONLY between its commas
    ogBaseUrl, \* whether process.env.OG_BASE_URL is set
    specs,     \* program's specs, the result of pickSpecs
    pending,   \* the number of specs still to capture
    server,    \* the template server of the run: none, reused, started
    child,     \* the spawned dev server process: none, running, exited
    killed,    \* child.killed: the script has sent SIGTERM to the child
    dirsRemoved, \* close has removed the cache and dist directories
    ogExit     \* -1 while the generator runs, else its exit code

cliVars == <<pc, argv, outcome, stdout, stderr, exitCode>>
wrapVars == <<wpc, wtext, wwidth, wlines>>
listVars == <<lpc, columns, listing>>
colorVars == <<cpc, ctext, colored>>
ogVars == <<opc, docSlugs, ogOnly, ogBaseUrl, specs, pending, server, child,
            killed, dirsRemoved, ogExit>>
vars == <<cliVars, wrapVars, listVars, colorVars, ogVars>>

\* The states of the parts a specification leaves alone.
ListIdle ==
    /\ lpc = "idle"
    /\ columns = <<>>
    /\ listing = <<>>

ColorIdle ==
    /\ cpc = "idle"
    /\ ctext = <<>>
    /\ colored = <<>>

OgIdle ==
    /\ opc = "idle"
    /\ docSlugs = <<>>
    /\ ogOnly = <<>>
    /\ ogBaseUrl = FALSE
    /\ specs = <<>>
    /\ pending = 0
    /\ server = "none"
    /\ child = "none"
    /\ killed = FALSE
    /\ dirsRemoved = FALSE
    /\ ogExit = -1

(***************************************************************************)
(* Bounds of the model.                                                    *)
(***************************************************************************)
MaxArgs == 3
MaxTextLen == 6
MaxWidth == 4
MaxColumns == 60
MaxPieces == 6
MaxDocs == 3
MaxOnly == 2

(***************************************************************************)
(* Strings.                                                                *)
(***************************************************************************)
Range(s) == {s[i] : i \in DOMAIN s}

\* The characters /\s/ matches, among those the model uses.
IsSpace(c) == c \in {" ", "\t"}

RECURSIVE trimStart(_)
trimStart(s) ==
    IF s # <<>> /\ IsSpace(Head(s)) THEN trimStart(Tail(s)) ELSE s

RECURSIVE trimEnd(_)
trimEnd(s) ==
    IF s # <<>> /\ IsSpace(s[Len(s)]) THEN trimEnd(SubSeq(s, 1, Len(s) - 1)) ELSE s

\* String.prototype.trim
trim(s) == trimEnd(trimStart(s))

\* String.prototype.split(/\s+/): the pieces between maximal runs of
\* whitespace; a leading or trailing run leaves an empty piece at that end.
RECURSIVE splitFrom(_, _, _, _)
splitFrom(s, i, cur, acc) ==
    IF i > Len(s) THEN Append(acc, cur)
    ELSE IF IsSpace(s[i])
         THEN IF i > 1 /\ IsSpace(s[i - 1])
              THEN splitFrom(s, i + 1, cur, acc)
              ELSE splitFrom(s, i + 1, <<>>, Append(acc, cur))
         ELSE splitFrom(s, i + 1, Append(cur, s[i]), acc)

splitWhitespace(s) == splitFrom(s, 1, <<>>, <<>>)

(***************************************************************************)
(* wrapText.                                                               *)
(***************************************************************************)
\* A mutation of fits: the joining space is not counted.
fitsWithoutSpace(current, word, maxWidth) ==
    Len(current) + Len(word) <= maxWidth

\* A mutation of fits: only the current line's length is tested.
fitsIgnoringWord(current, word, maxWidth) ==
    Len(current) + 1 <= maxWidth

\* current.length + 1 + word.length <= maxWidth
fits(current, word, maxWidth) ==
    Len(current) + 1 + Len(word) <= maxWidth

\* The for loop over words and the final push of a non-empty current line.
RECURSIVE wrapWords(_, _, _, _)
wrapWords(words, maxWidth, current, lines) ==
    IF words = <<>>
    THEN IF Len(current) > 0 THEN Append(lines, current) ELSE lines
    ELSE LET word == Head(words) IN
         IF Len(current) = 0
         THEN wrapWords(Tail(words), maxWidth, word, lines)
         ELSE IF fits(current, word, maxWidth)
              THEN wrapWords(Tail(words), maxWidth, current \o <<" ">> \o word, lines)
              ELSE wrapWords(Tail(words), maxWidth, word, Append(lines, current))

\* A mutation of wrapText: the guard for a blank text or a width <= 0 is gone.
wrapTextWithoutGuard(text, maxWidth) ==
    wrapWords(splitWhitespace(text), maxWidth, <<>>, <<>>)

wrapText(text, maxWidth) ==
    IF trim(text) = <<>> \/ maxWidth <= 0
    THEN <<text>>
    ELSE wrapWords(splitWhitespace(text), maxWidth, <<>>, <<>>)

(***************************************************************************)
(* The catalog (docs-manifest): DOCS in declaration order, and DOC_LOOKUP, *)
(* the object that has one own property per document, keyed by its slug.   *)
(***************************************************************************)
DOCS ==
    << [type |-> "doc", slug |-> <<"a">>, title |-> <<"A">>,
        description |-> <<"x", "x", " ", "x", "x", " ", "x", "x", " ", "x", "x", " ",
                         "x", "x", " ", "x", "x", " ", "x", "x", " ", "x", "x", " ",
                         "x", "x", " ", "x", "x", " ", "x", "x", " ", "x", "x", " ",
                         "x", "x", " ", "y", "y">>,
        body |-> <<"p">>, draft |-> FALSE],
       [type |-> "doc", slug |-> <<"b">>, title |-> <<"B">>,
        description |-> <<>>, body |-> <<" ", "q", "\t">>, draft |-> FALSE],
       [type |-> "doc", slug |-> <<"d">>, title |-> <<"D">>,
        description |-> <<"z">>, body |-> <<>>, draft |-> TRUE] >>

DOC_LOOKUP ==
    [s \in {DOCS[i].slug : i \in DOMAIN DOCS} |->
        CHOOSE d \in Range(DOCS) : d.slug = s]

\* Property names every object inherits from Object.prototype (two of them):
\* `key in object` is true of these as well as of the object's own keys.
ObjectPrototypeKeys ==
    { <<"c", "o", "n", "s", "t", "r", "u", "c", "t", "o", "r">>,
      <<"t", "o", "S", "t", "r", "i", "n", "g">> }

\* value in DOC_LOOKUP
isDocSlug(value) ==
    value \in DOMAIN DOC_LOOKUP \/ value \in ObjectPrototypeKeys

\* DOC_LOOKUP[slug]: the document, an inherited member (a function of
\* Object.prototype, which has no title and no body), or undefined.
lookupValue(slug) ==
    IF slug \in DOMAIN DOC_LOOKUP THEN DOC_LOOKUP[slug]
    ELSE IF slug \in ObjectPrototypeKeys THEN [type |-> "inherited"]
    ELSE [type |-> "undefined"]

(***************************************************************************)
(* colorizeCodeReferences.  A styled text is the text with a marker where  *)
(* picocolors puts the opening and the closing escape codes of a style;    *)
(* a marker is no backtick, so [^`]+ runs over it as over the codes.       *)
(***************************************************************************)
\* The backtick character, which a TLA+ string cannot hold.
BT == "BT"

\* pc.bold(pc.green(match)), pc.cyan(match), pc.dim(match)
boldGreen(match) == <<"<command>">> \o match \o <<"</command>">>
cyan(match) == <<"<file>">> \o match \o <<"</file>">>
dim(match) == <<"<dim>">> \o match \o <<"</dim>">>

StyleOf(rule, match) ==
    CASE rule = "bunx" -> boldGreen(match)
      [] rule = "bun run" -> boldGreen(match)
      [] rule = "file" -> cyan(match)
      [] rule = "code" -> dim(match)

HasPrefix(s, p) == Len(s) >= Len(p) /\ SubSeq(s, 1, Len(p)) = p
HasSuffix(s, p) == Len(s) >= Len(p) /\ SubSeq(s, Len(s) - Len(p) + 1, Len(s)) = p

FileExtensions ==
    {<<"t", "s">>, <<"j", "s", "o", "n">>, <<"t", "o", "m", "l">>, <<"m", "d">>}

\* What stands between the backticks of a match of the rule's pattern:
\* `bunx [^`]+`, `bun run [^`]+`, `[^`]+\.(ts|json|toml|md)`, `[^`]+`.
ContentMatches(rule, content) ==
    CASE rule = "bunx" ->
            /\ HasPrefix(content, <<"b", "u", "n", "x", " ">>)
            /\ Len(content) > 5
      [] rule = "bun run" ->
            /\ HasPrefix(content, <<"b", "u", "n", " ", "r", "u", "n", " ">>)
            /\ Len(content) > 8
      [] rule = "file" ->
            \E ext \in FileExtensions :
                /\ HasSuffix(content, <<".">> \o ext)
                /\ Len(content) > Len(ext) + 1
      [] rule = "code" -> Len(content) > 0

\* The index of the first backtick of s at or after i, 0 when there is none.
RECURSIVE NextBacktick(_, _)
NextBacktick(s, i) ==
    IF i > Len(s) THEN 0
    ELSE IF s[i] = BT THEN i
    ELSE NextBacktick(s, i + 1)

\* The end of the pattern's match that starts at i, 0 when none starts there;
\* [^`]+ cannot pass a backtick, so a match ends at the next backtick.
MatchEnd(rule, s, i) ==
    IF s[i] # BT THEN 0
    ELSE LET j == NextBacktick(s, i + 1) IN
         IF j # 0 /\ ContentMatches(rule, SubSeq(s, i + 1, j - 1)) THEN j ELSE 0

\* s.replace(/pattern/g, style): the matches from left to right, the search
\* resuming behind each match.
RECURSIVE replaceFrom(_, _, _)
replaceFrom(rule, s, i) ==
    IF i > Len(s) THEN <<>>
    ELSE LET j == MatchEnd(rule, s, i) IN
         IF j # 0
         THEN StyleOf(rule, SubSeq(s, i, j)) \o replaceFrom(rule, s, j + 1)
         ELSE <<s[i]>> \o replaceFrom(rule, s, i + 1)

replaceAll(rule, s) == replaceFrom(rule, s, 1)

colorizeCodeReferences(text) ==
    replaceAll("code", replaceAll("file", replaceAll("bun run", replaceAll("bunx", text))))

(***************************************************************************)
(* renderDocs.  The result is a record: kind "ok" with the blocks that the *)
(* returned string joins with the "---" separator, or the kind of the      *)
(* error thrown.  The styling of the title and of the separator is left    *)
(* out of the text.                                                        *)
(***************************************************************************)
Result(kind, blocks, unknown) ==
    [kind |-> kind, blocks |-> blocks, unknown |-> unknown]

NonEmpty(s) == s # <<>>

MapTrim(requested) == [i \in DOMAIN requested |-> trim(requested[i])]

\* A mutation of trimAndFilter: blank strings are dropped without trimming.
filterWithoutTrim(requested) == SelectSeq(requested, NonEmpty)

\* requested.map((slug) => slug.trim()).filter(Boolean)
trimAndFilter(requested) == SelectSeq(MapTrim(requested), NonEmpty)

NotDocSlug(slug) == ~isDocSlug(slug)

\* slugs.filter((slug) => !isDocSlug(slug))
unknownSlugs(slugs) == SelectSeq(slugs, NotDocSlug)

\* A mutation of uniqueSlugsOf: duplicates are kept.
keepDuplicates(slugs) == slugs

\* Array.from(new Set(slugs)): a Set iterates in insertion order.
RECURSIVE uniqueFrom(_, _)
uniqueFrom(slugs, acc) ==
    IF slugs = <<>> THEN acc
    ELSE IF Head(slugs) \in Range(acc)
         THEN uniqueFrom(Tail(slugs), acc)
         ELSE uniqueFrom(Tail(slugs), Append(acc, Head(slugs)))

uniqueSlugsOf(slugs) == uniqueFrom(slugs, <<>>)

\* `## ${doc.title}` and `(${doc.slug})`, joined by a space.
titleLine(doc) ==
    <<"#", "#", " ">> \o doc.title \o <<" ", "(">> \o doc.slug \o <<")">>

\* [title, "", body].filter(Boolean): the lines that "\n" joins.
renderBlock(doc) ==
    [slug |-> doc.slug,
     parts |-> SelectSeq(<<titleLine(doc), <<>>,
                           colorizeCodeReferences(trim(doc.body))>>, NonEmpty)]

\* What the callback of uniqueSlugs.map does with one slug: it throws the
\* internal error when DOC_LOOKUP[slug] is falsy, and a TypeError at
\* doc.body.trim() when the value has no body; else it returns the block.
blockOutcome(slug) ==
    LET doc == lookupValue(slug) IN
    IF doc.type = "undefined" THEN "InternalError"
    ELSE IF doc.type = "inherited" THEN "TypeError"
    ELSE "ok"

\* A mutation of renderDocs: unknown slugs are skipped and the rest rendered.
renderDocsSkippingUnknown(requested) ==
    LET slugs == trimAndFilter(requested)
        known == SelectSeq(slugs, LAMBDA s : s \in DOMAIN DOC_LOOKUP)
        uniqueSlugs == uniqueSlugsOf(known)
    IN  Result("ok", [i \in DOMAIN uniqueSlugs |-> renderBlock(DOC_LOOKUP[uniqueSlugs[i]])], <<>>)

\* The errors are thrown in the order of the code: no slugs, unknown slugs,
\* then the first slug whose block cannot be built.
renderDocs(requested) ==
    LET slugs == trimAndFilter(requested)
        unknown == unknownSlugs(slugs)
        uniqueSlugs == uniqueSlugsOf(slugs)
        thrown == {i \in DOMAIN uniqueSlugs : blockOutcome(uniqueSlugs[i]) # "ok"}
    IN  IF Len(slugs) = 0 THEN Result("NoSlugs", <<>>, <<>>)
        ELSE IF Len(unknown) > 0 THEN Result("UnknownSlugs", <<>>, unknown)
        ELSE IF thrown # {}
             THEN Result(blockOutcome(uniqueSlugs[CHOOSE i \in thrown : \A j \in thrown : i <= j]),
                         <<>>, <<>>)
             ELSE Result("ok",
                         [i \in DOMAIN uniqueSlugs |-> renderBlock(lookupValue(uniqueSlugs[i]))],
                         <<>>)

(***************************************************************************)
(* One run of `effect-solutions show <argv>`: the main pipeline.           *)
(***************************************************************************)
\* The argument strings the model draws a command line from.
Tokens ==
    { <<"a">>, <<" ", "a", "\t">>, <<"A">>, <<"b">>, <<"d">>,
      <<>>, <<" ">>, <<"x">>,
      <<"-", "-", "a", "l", "l">>,
      <<"c", "o", "n", "s", "t", "r", "u", "c", "t", "o", "r">> }

CommandLines == UNION {[1..n -> Tokens] : n \in 0..MaxArgs}

NoOutcome == Result("none", <<>>, <<>>)

\* `Error: ${cause}`
errorMessage(cause) == [prefix |-> "Error: ", cause |-> cause]

\* showCommand: Args.text({ name: "slug" }).pipe(Args.atLeast(1)) takes every
\* argument as a slug; with no argument the parse fails and the handler does
\* not run.
ParseArgs ==
    /\ pc = "main"
    /\ IF Len(argv) = 0
       THEN /\ outcome' = Result("MissingArgument", <<>>, <<>>)
            /\ pc' = "failed"
       ELSE /\ outcome' = outcome
            /\ pc' = "handler"
    /\ UNCHANGED <<argv, stdout, stderr, exitCode>>
    /\ UNCHANGED <<wrapVars, listVars, colorVars, ogVars>>

\* showDocs: Effect.try(() => renderDocs(slugs)); a throw becomes a failure.
ShowDocs ==
    /\ pc = "handler"
    /\ outcome' = renderDocs(argv)
    /\ pc' = IF outcome'.kind = "ok" THEN "rendered" ELSE "failed"
    /\ UNCHANGED <<argv, stdout, stderr, exitCode>>
    /\ UNCHANGED <<wrapVars, listVars, colorVars, ogVars>>

\* renderDocs is exported: a caller other than the command calls it with any
\* list, the empty one included.
CallRenderDocs ==
    /\ pc = "call"
    /\ outcome' = renderDocs(argv)
    /\ pc' = "returned"
    /\ UNCHANGED <<argv, stdout, stderr, exitCode>>
    /\ UNCHANGED <<wrapVars, listVars, colorVars, ogVars>>

\* Effect.flatMap((output) => Console.log(output))
LogOutput ==
    /\ pc = "rendered"
    /\ stdout' = Append(stdout, outcome.blocks)
    /\ pc' = "succeeded"
    /\ UNCHANGED <<argv, outcome, stderr, exitCode>>
    /\ UNCHANGED <<wrapVars, listVars, colorVars, ogVars>>

\* Effect.tapErrorCause((cause) => Console.error(pc.red(`Error: ${cause}`)))
TapErrorCause ==
    /\ pc = "failed"
    /\ stderr' = Append(stderr, errorMessage(outcome))
    /\ pc' = "reported"
    /\ UNCHANGED <<argv, outcome, stdout, exitCode>>
    /\ UNCHANGED <<wrapVars, listVars, colorVars, ogVars>>

\* A mutation of ExitFailure: the process ends with code 0.
ExitFailureWithZero ==
    /\ pc = "reported"
    /\ exitCode' = 0
    /\ pc' = "exited"
    /\ UNCHANGED <<argv, outcome, stdout, stderr>>
    /\ UNCHANGED <<wrapVars, listVars, colorVars, ogVars>>

\* Effect.catchAll(() => Effect.sync(() => process.exit(1)))
ExitFailure ==
    /\ pc = "reported"
    /\ exitCode' = 1
    /\ pc' = "exited"
    /\ UNCHANGED <<argv, outcome, stdout, stderr>>
    /\ UNCHANGED <<wrapVars, listVars, colorVars, ogVars>>

\* BunRuntime.runMain: the effect succeeded, the process ends with code 0.
ExitSuccess ==
    /\ pc = "succeeded"
    /\ exitCode' = 0
    /\ pc' = "exited"
    /\ UNCHANGED <<argv, outcome, stdout, stderr>>
    /\ UNCHANGED <<wrapVars, listVars, colorVars, ogVars>>

WrapIdle ==
    /\ wpc = "idle"
    /\ wtext = <<>>
    /\ wwidth = 0
    /\ wlines = <<>>

Init ==
    /\ pc \in {"main", "call"}
    /\ argv \in CommandLines
    /\ outcome = NoOutcome
    /\ stdout = <<>>
    /\ stderr = <<>>
    /\ exitCode = -1
    /\ WrapIdle
    /\ ListIdle
    /\ ColorIdle
    /\ OgIdle

Next ==
    \/ CallRenderDocs
    \/ ParseArgs
    \/ ShowDocs
    \/ LogOutput
    \/ TapErrorCause
    \/ ExitFailure
    \/ ExitSuccess

Spec == Init /\ [][Next]_vars

(***************************************************************************)
(* One call of wrapText on a text and a width drawn from bounded sets.     *)
(***************************************************************************)
Alphabet == {"a", "b", " ", "\t"}

Texts == UNION {[1..n -> Alphabet] : n \in 0..MaxTextLen}

CliIdle ==
    /\ pc = "idle"
    /\ argv = <<>>
    /\ outcome = NoOutcome
    /\ stdout = <<>>
    /\ stderr = <<>>
    /\ exitCode = -1

WrapInit ==
    /\ wpc = "input"
    /\ wtext \in Texts
    /\ wwidth \in (-1)..MaxWidth
    /\ wlines = <<>>
    /\ CliIdle
    /\ ListIdle
    /\ ColorIdle
    /\ OgIdle

CallWrapText ==
    /\ wpc = "input"
    /\ wlines' = wrapText(wtext, wwidth)
    /\ wpc' = "wrapped"
    /\ UNCHANGED <<wtext, wwidth>>
    /\ UNCHANGED <<cliVars, listVars, colorVars, ogVars>>

WrapNext == CallWrapText

WrapSpec == WrapInit /\ [][WrapNext]_vars

(***************************************************************************)
(* Vocabulary of the properties.                                           *)
(***************************************************************************)
\* The slugs of the documents the catalog declares.
DeclaredSlugs == {DOCS[i].slug : i \in DOMAIN DOCS}

\* The requested strings that are not blank, trimmed, by position in argv.
RequestedAt(i) == trim(argv[i])
NonBlankPositions == {i \in DOMAIN argv : RequestedAt(i) # <<>>}
RequestedSlugs == {RequestedAt(i) : i \in NonBlankPositions}

\* renderDocs has been called on argv and has returned or thrown.
RenderDocsDone == outcome.kind \notin {"none", "MissingArgument"}

FirstPosition(slug) ==
    CHOOSE k \in DOMAIN argv :
        RequestedAt(k) = slug /\ \A m \in 1..(k - 1) : RequestedAt(m) # slug

\* The request is invalid: no slug in it, or a slug that is no declared document.
InvalidRequest ==
    \/ NonBlankPositions = {}
    \/ \E i \in NonBlankPositions : RequestedAt(i) \notin DeclaredSlugs

AllFlag == <<"-", "-", "a", "l", "l">>

\* The slugs of the documents that are not drafts, in declaration order.
NonDraftSlugs ==
    LET NotDraft(d) == ~d.draft
        kept == SelectSeq(DOCS, NotDraft)
    IN  [i \in DOMAIN kept |-> kept[i].slug]

(***************************************************************************)
(* C1..C7: the `show` command.                                             *)
(***************************************************************************)
\* C1: for a non-empty request whose strings are all declared slugs after
\* trimming, renderDocs returns one block per distinct slug, each the block of
\* that slug's document, ordered by the slug's first position in the request.
C1_OneBlockPerUniqueSlug ==
    (/\ RenderDocsDone
     /\ argv # <<>>
     /\ \A i \in DOMAIN argv : RequestedAt(i) \in DeclaredSlugs)
    => /\ outcome.kind = "ok"
       /\ LET blocks == outcome.blocks IN
          /\ {blocks[i].slug : i \in DOMAIN blocks} = RequestedSlugs
          /\ \A i, j \in DOMAIN blocks : i # j => blocks[i].slug # blocks[j].slug
          /\ \A i, j \in DOMAIN blocks :
                i < j => FirstPosition(blocks[i].slug) < FirstPosition(blocks[j].slug)
          /\ \A i \in DOMAIN blocks :
                \E k \in DOMAIN DOCS :
                    /\ DOCS[k].slug = blocks[i].slug
                    /\ blocks[i].parts[1] = titleLine(DOCS[k])

\* C1 witness: a request of three known slugs, the first repeated (with
\* padding) at the end, has run to the end and printed two blocks.
C1_Witness ==
    /\ pc = "exited"
    /\ Len(argv) = 3
    /\ argv[1] = <<"b">> /\ argv[2] = <<"a">> /\ argv[3] = <<" ", "a", "\t">>
    /\ outcome.kind = "ok"
    /\ Len(outcome.blocks) = 2
    /\ outcome.blocks[1].slug = <<"b">>

\* C2: renderDocs fails with the "no slugs" error, and returns no output,
\* whenever the requested list is empty or all its strings are blank.
C2_NoSlugsError ==
    (RenderDocsDone /\ NonBlankPositions = {})
    => outcome.kind = "NoSlugs" /\ outcome.blocks = <<>>

\* C2 witness: renderDocs was called with an empty string and a blank one.
C2_Witness ==
    /\ RenderDocsDone
    /\ argv = << <<>>, <<" ">> >>
    /\ outcome.kind = "NoSlugs"

\* C3: when the request holds a slug that is no declared document, renderDocs
\* fails with the "unknown slug(s)" error, whose list holds exactly the
\* requested slugs that are no declared document.
C3_UnknownSlugsAllNamed ==
    (/\ RenderDocsDone
     /\ \E i \in NonBlankPositions : RequestedAt(i) \notin DeclaredSlugs)
    => /\ outcome.kind = "UnknownSlugs"
       /\ Range(outcome.unknown) = RequestedSlugs \ DeclaredSlugs

\* C4: a requested string is accepted as known exactly when it equals a
\* declared slug; any other string is reported unknown and is not rendered.
C4_ExactMatchOnly ==
    RenderDocsDone
    => \A i \in NonBlankPositions :
          /\ isDocSlug(RequestedAt(i)) <=> RequestedAt(i) \in DeclaredSlugs
          /\ RequestedAt(i) \notin DeclaredSlugs
                => /\ outcome.kind = "UnknownSlugs"
                   /\ RequestedAt(i) \in Range(outcome.unknown)

\* C5: an invalid request writes nothing to standard output and produces no
\* block; the run ends with a single message on standard error.
C5_NoPartialOutput ==
    InvalidRequest
    => /\ stdout = <<>>
       /\ outcome.blocks = <<>>
       /\ Len(stderr) <= 1
       /\ pc = "exited" => Len(stderr) = 1

\* C5 witness: a request of a valid and an unknown slug has run to its end.
C5_Witness ==
    /\ pc = "exited"
    /\ argv = << <<"a">>, <<"x">> >>
    /\ stdout = <<>>
    /\ Len(stderr) = 1

\* C6: a run of `show` goes on from each step to the next until the process
\* exits; it exits with code 0 and the output on standard output when
\* rendering succeeded, and with a non-zero code, the error message being on
\* standard error before the exit, on a missing-argument, no-slug or
\* unknown-slug error.
C6_ExitCodes ==
    /\ pc = "main" => ENABLED ParseArgs
    /\ pc = "rendered" => ENABLED LogOutput
    /\ pc = "succeeded" => ENABLED ExitSuccess
    /\ pc = "failed" => ENABLED TapErrorCause
    /\ pc = "reported" => ENABLED ExitFailure
    /\ exitCode # -1 => pc = "exited"
    /\ pc = "reported" => exitCode = -1 /\ stderr = <<errorMessage(outcome)>>
    /\ pc = "exited" =>
          /\ outcome.kind = "ok" => exitCode = 0 /\ stdout = <<outcome.blocks>>
          /\ outcome.kind # "ok" =>
                 exitCode > 0 /\ stderr = <<errorMessage(outcome)>> /\ stdout = <<>>

\* C6 witness: a run with an unknown slug has ended with exit code 1 and its
\* message on standard error.
C6_Witness ==
    /\ pc = "exited"
    /\ exitCode = 1
    /\ outcome.kind = "UnknownSlugs"
    /\ stderr = <<errorMessage(outcome)>>

\* C7: `show --all` succeeds and prints what `show` prints for the slugs of
\* all non-draft documents.
C7_ShowAllEquivalent ==
    (pc = "exited" /\ argv = <<AllFlag>>)
    => /\ exitCode = 0
       /\ outcome = renderDocs(NonDraftSlugs)
       /\ stdout = <<renderDocs(NonDraftSlugs).blocks>>

(***************************************************************************)
(* C8..C10: wrapText.                                                      *)
(***************************************************************************)
\* The words of a text: its maximal runs of non-whitespace characters.
WordStarts(s) ==
    {i \in DOMAIN s : ~IsSpace(s[i]) /\ (i = 1 \/ IsSpace(s[i - 1]))}

WordEnd(s, i) ==
    CHOOSE j \in i..Len(s) :
        /\ \A k \in i..j : ~IsSpace(s[k])
        /\ j = Len(s) \/ IsSpace(s[j + 1])

RECURSIVE WordsFrom(_, _)
WordsFrom(s, starts) ==
    IF starts = {} THEN <<>>
    ELSE LET i == CHOOSE x \in starts : \A y \in starts : x <= y
         IN  <<SubSeq(s, i, WordEnd(s, i))>> \o WordsFrom(s, starts \ {i})

Words(s) == WordsFrom(s, WordStarts(s))

RECURSIVE JoinWithSpaces(_)
JoinWithSpaces(lines) ==
    IF lines = <<>> THEN <<>>
    ELSE IF Len(lines) = 1 THEN lines[1]
    ELSE lines[1] \o <<" ">> \o JoinWithSpaces(Tail(lines))

\* The whitespace-normalized text: its words joined by single spaces.
Normalized(s) == JoinWithSpaces(Words(s))

NoWordLongerThanWidth == \A i \in DOMAIN Words(wtext) : Len(Words(wtext)[i]) <= wwidth

LongWords ==
    LET Long(w) == Len(w) > wwidth IN SelectSeq(Words(wtext), Long)

LongLines ==
    LET Long(l) == Len(l) > wwidth IN SelectSeq(wlines, Long)

\* C8 as stated: for every text and width W > 0 with no word longer than W,
\* every returned line is at most W long.
C8_LinesWithinWidth ==
    (wpc = "wrapped" /\ wwidth > 0 /\ NoWordLongerThanWidth)
    => \A i \in DOMAIN wlines : Len(wlines[i]) <= wwidth

\* C8 amended: the bound holds for every text that has a word; a text
\* without one is returned unchanged as the only line, whatever its length.
C8_LinesWithinWidthNonBlank ==
    (wpc = "wrapped" /\ wwidth > 0 /\ NoWordLongerThanWidth)
    => IF Words(wtext) # <<>>
       THEN \A i \in DOMAIN wlines : Len(wlines[i]) <= wwidth
       ELSE wlines = <<wtext>>

\* C8 witness: a text of words no longer than the width was wrapped into
\* several lines, one of them holding two words and filling the width.
C8_Witness ==
    /\ wpc = "wrapped"
    /\ wwidth > 0
    /\ NoWordLongerThanWidth
    /\ Len(wlines) >= 2
    /\ \E i \in DOMAIN wlines : Len(wlines[i]) = wwidth /\ Len(Words(wlines[i])) = 2

\* C9: for every text with a word and every width W > 0, the returned lines
\* joined by single spaces are the whitespace-normalized text.
C9_RoundTrip ==
    (wpc = "wrapped" /\ wwidth > 0 /\ Words(wtext) # <<>>)
    => JoinWithSpaces(wlines) = Normalized(wtext)

\* C10 as stated: the lines longer than W are exactly the words longer than
\* W, each whole and alone on its line, in the order of the text.
C10_LongWordsAlone ==
    wpc = "wrapped" => LongLines = LongWords

\* C10 amended: the same for a width W > 0 and a text that has a word.
C10_LongWordsAlonePositiveWidth ==
    (wpc = "wrapped" /\ wwidth > 0 /\ Words(wtext) # <<>>) => LongLines = LongWords

\* C10 witness: a text with a word longer than the width between two shorter
\* words was wrapped, and the long word is a line.
C10_Witness ==
    /\ wpc = "wrapped"
    /\ wwidth > 0
    /\ Len(Words(wtext)) = 3
    /\ Len(Words(wtext)[1]) <= wwidth
    /\ Len(Words(wtext)[2]) > wwidth
    /\ Len(Words(wtext)[3]) <= wwidth
    /\ Len(wlines) = 3
    /\ wlines[2] = Words(wtext)[2]

(***************************************************************************)
(* renderDocList: the `list` output, as the lines of the returned string.  *)
(* The picocolors styling is left out of the text.                         *)
(***************************************************************************)
MIN_TERMINAL_WIDTH == 40
FALLBACK_TERMINAL_WIDTH == 80
MIN_DESCRIPTION_WIDTH == 20

Max(a, b) == IF a >= b THEN a ELSE b

\* A mutation of getTerminalWidth: the width is not clamped to the minimum.
getTerminalWidthUnclamped(cols) ==
    IF cols # <<>> THEN cols[1] ELSE FALLBACK_TERMINAL_WIDTH

\* typeof process.stdout?.columns === "number" ? columns : fallback, clamped.
getTerminalWidth(cols) ==
    Max(MIN_TERMINAL_WIDTH,
        IF cols # <<>> THEN cols[1] ELSE FALLBACK_TERMINAL_WIDTH)

indent == <<" ", " ">>

descriptionWidth(cols) ==
    Max(MIN_DESCRIPTION_WIDTH, getTerminalWidth(cols) - Len(indent))

\* `${doc.slug}  ${doc.title}`
listTitleLine(doc) == doc.slug \o <<" ", " ">> \o doc.title

\* [titleLine, ...wrappedDescription]: the lines of one card.
docCard(doc, width) ==
    LET wrapped == wrapText(doc.description, width)
    IN  <<listTitleLine(doc)>> \o [i \in DOMAIN wrapped |-> indent \o wrapped[i]]

\* cards.join("\n\n"): an empty line between two cards.
RECURSIVE joinCards(_)
joinCards(cards) ==
    IF cards = <<>> THEN <<>>
    ELSE IF Len(cards) = 1 THEN cards[1]
    ELSE cards[1] \o << <<>> >> \o joinCards(Tail(cards))

\* A mutation of listedDocs: drafts are left out of the list.
listedDocsWithoutDrafts ==
    LET NotDraft(d) == ~d.draft IN SelectSeq(DOCS, NotDraft)

\* The documents DOCS.map goes over.
listedDocs == DOCS

renderDocList(cols) ==
    joinCards([i \in DOMAIN listedDocs |-> docCard(listedDocs[i], descriptionWidth(cols))])

\* What process.stdout.columns may be: no number, or a count.
ColumnReports == {<<>>} \cup {<<n>> : n \in (-MaxColumns)..MaxColumns}

ListInit ==
    /\ lpc = "input"
    /\ columns \in ColumnReports
    /\ listing = <<>>
    /\ CliIdle
    /\ WrapIdle
    /\ ColorIdle
    /\ OgIdle

CallRenderDocList ==
    /\ lpc = "input"
    /\ listing' = renderDocList(columns)
    /\ lpc' = "rendered"
    /\ UNCHANGED columns
    /\ UNCHANGED <<cliVars, wrapVars, colorVars, ogVars>>

ListNext == CallRenderDocList

ListSpec == ListInit /\ [][ListNext]_vars

(***************************************************************************)
(* C11, C12, C14: the list.                                                *)
(***************************************************************************)
\* A catalog document whose description is the text given to wrapText.
DocWithDescription(text) ==
    [type |-> "doc", slug |-> <<"s">>, title |-> <<"T">>, description |-> text,
     body |-> <<>>, draft |-> FALSE]

\* C11 as stated: for a description without any word wrapText returns one
\* line, which is empty, and the entry is its header and one empty
\* description line.
C11_BlankDescriptionEmptyLine ==
    (wpc = "wrapped" /\ Words(wtext) = <<>>)
    => /\ wlines = << <<>> >>
       /\ docCard(DocWithDescription(wtext), wwidth)
             = <<listTitleLine(DocWithDescription(wtext)), indent>>

\* C11 amended: the one line is the description unchanged (empty only for the
\* empty description), and the entry is its header and that line, indented.
C11_BlankDescriptionPassedThrough ==
    (wpc = "wrapped" /\ Words(wtext) = <<>>)
    => /\ wlines = <<wtext>>
       /\ docCard(DocWithDescription(wtext), wwidth)
             = <<listTitleLine(DocWithDescription(wtext)), indent \o wtext>>

\* C11 witness: a whitespace-only description longer than the width was
\* wrapped into one line.
C11_Witness ==
    /\ wpc = "wrapped"
    /\ wtext = <<" ", "\t", " ">>
    /\ wwidth = 2
    /\ Len(wlines) = 1

\* The pieces of a sequence of lines between its empty lines.
RECURSIVE EntriesFrom(_, _, _)
EntriesFrom(lines, cur, acc) ==
    IF lines = <<>> THEN Append(acc, cur)
    ELSE IF Head(lines) = <<>>
         THEN EntriesFrom(Tail(lines), <<>>, Append(acc, cur))
         ELSE EntriesFrom(Tail(lines), Append(cur, Head(lines)), acc)

Entries(lines) == EntriesFrom(lines, <<>>, <<>>)

\* C12: the list holds one entry per document of the catalog, drafts
\* included, in declaration order, each starting with the document's header
\* line, with exactly one empty line between two entries, whatever the
\* terminal reports.
C12_OneEntryPerDocument ==
    lpc = "rendered"
    => LET entries == Entries(listing) IN
       /\ Len(entries) = Len(DOCS)
       /\ \A i \in DOMAIN entries :
             /\ Len(entries[i]) >= 2
             /\ entries[i][1] = DOCS[i].slug \o <<" ", " ">> \o DOCS[i].title
             /\ \A k \in 2..Len(entries[i]) :
                   SubSeq(entries[i][k], 1, 2) = <<" ", " ">>
       /\ \E i \in DOMAIN entries : DOCS[i].draft

\* C12 witness: the list was rendered for a narrow terminal: the first
\* document's description takes two lines, the draft is the last entry.
C12_Witness ==
    /\ lpc = "rendered"
    /\ columns = <<10>>
    /\ Len(Entries(listing)) = 3
    /\ Len(Entries(listing)[1]) = 3
    /\ Entries(listing)[3][1] = <<"d", " ", " ", "D">>

\* C14: the terminal width is the reported column count when it is a number,
\* else 80, and not below 40; the description width is that width minus the
\* indent, at least 20, hence positive, and no description line of the list
\* is wider than the terminal.
C14_TerminalWidthClamped ==
    LET width == getTerminalWidth(columns)
        wrapWidth == descriptionWidth(columns)
    IN  /\ width >= 40
        /\ columns = <<>> => width = 80
        /\ (columns # <<>> /\ columns[1] >= 40) => width = columns[1]
        /\ (columns # <<>> /\ columns[1] < 40) => width = 40
        /\ wrapWidth > 0
        /\ wrapWidth >= 20
        /\ wrapWidth >= width - 2
        /\ lpc = "rendered" =>
              \A i \in DOMAIN listing : Len(listing[i]) <= width

\* C14 witness: the terminal reported zero columns and the list was rendered
\* at the minimum width, the long description on two lines.
C14_Witness ==
    /\ lpc = "rendered"
    /\ columns = <<0>>
    /\ descriptionWidth(columns) = 38
    /\ Len(listing) = 9
    /\ Len(listing[2]) = 40

(***************************************************************************)
(* colorizeCodeReferences on the texts made of a few pieces.               *)
(***************************************************************************)
CodePieces ==
    { <<BT>>,
      <<"b", "u", "n", "x", " ">>,
      <<"b", "u", "n", " ", "r", "u", "n", " ">>,
      <<"a">>,
      <<".", "t", "s">> }

RECURSIVE Flatten(_)
Flatten(pieces) ==
    IF pieces = <<>> THEN <<>> ELSE Head(pieces) \o Flatten(Tail(pieces))

ColorTexts ==
    {Flatten(ps) : ps \in UNION {[1..n -> CodePieces] : n \in 0..MaxPieces}}

ColorInit ==
    /\ cpc = "input"
    /\ ctext \in ColorTexts
    /\ colored = <<>>
    /\ CliIdle
    /\ WrapIdle
    /\ ListIdle
    /\ OgIdle

CallColorize ==
    /\ cpc = "input"
    /\ colored' = colorizeCodeReferences(ctext)
    /\ cpc' = "colored"
    /\ UNCHANGED ctext
    /\ UNCHANGED <<cliVars, wrapVars, listVars, ogVars>>

ColorNext == CallColorize

ColorSpec == ColorInit /\ [][ColorNext]_vars

\* The rule that takes a span, by precedence: a command prefix, then a file
\* extension, then the default.
RuleByPrecedence(content) ==
    IF ContentMatches("bunx", content) THEN "bunx"
    ELSE IF ContentMatches("bun run", content) THEN "bun run"
    ELSE IF ContentMatches("file", content) THEN "file"
    ELSE "code"

\* The text with each backtick span, from left to right, highlighted once,
\* by the rule that takes it.
RECURSIVE HighlightedOnceFrom(_, _)
HighlightedOnceFrom(s, i) ==
    IF i > Len(s) THEN <<>>
    ELSE LET j == MatchEnd("code", s, i) IN
         IF j # 0
         THEN StyleOf(RuleByPrecedence(SubSeq(s, i + 1, j - 1)), SubSeq(s, i, j))
                 \o HighlightedOnceFrom(s, j + 1)
         ELSE <<s[i]>> \o HighlightedOnceFrom(s, i + 1)

\* C13 as stated: every backtick span of the text gets exactly one
\* highlight, chosen by precedence (command prefix, else file extension,
\* else default), and a span an earlier rule highlighted is not highlighted
\* again.
C13_OneHighlightPerSpan ==
    cpc = "colored" => colored = HighlightedOnceFrom(ctext, 1)

(***************************************************************************)
(* The OG image generator: the spec list.  A spec is its slug and title;   *)
(* the subtitle plays no part in the selection and is left out.            *)
(***************************************************************************)
HomeSlug == <<"h", "o", "m", "e">>

homeSpec ==
    [slug |-> HomeSlug,
     title |-> <<"E", "f", "f", "e", "c", "t", " ",
                 "S", "o", "l", "u", "t", "i", "o", "n", "s">>]

\* getAllDocs(): the documents of the site, here by their slugs; the title of
\* the i-th document is i letters long, so that every document has its own.
getAllDocs(slugs) ==
    [i \in DOMAIN slugs |-> [slug |-> slugs[i], title |-> [k \in 1..i |-> "t"]]]

buildDocSpecs(slugs) == <<homeSpec>> \o getAllDocs(slugs)

\* A mutation of dedupeFrom: a later spec takes the place of an earlier one
\* that has its slug.
RECURSIVE dedupeKeepingLast(_, _)
dedupeKeepingLast(list, unique) ==
    IF list = <<>> THEN unique
    ELSE LET spec == Head(list)
             Other(u) == u.slug # spec.slug
         IN  dedupeKeepingLast(Tail(list), Append(SelectSeq(unique, Other), spec))

\* The loop of dedupeSpecs; the slugs of `unique` are the set `seen`.
RECURSIVE dedupeFrom(_, _)
dedupeFrom(list, unique) ==
    IF list = <<>> THEN unique
    ELSE LET spec == Head(list) IN
         IF \E i \in DOMAIN unique : unique[i].slug = spec.slug
         THEN dedupeFrom(Tail(list), unique)
         ELSE dedupeFrom(Tail(list), Append(unique, spec))

dedupeSpecs(list) == dedupeFrom(list, <<>>)

\* OG_ONLY split at the commas, each piece trimmed, the empty ones dropped.
onlyOf(pieces) == SelectSeq(MapTrim(pieces), NonEmpty)

pickSpecs(slugs, pieces) ==
    LET only == onlyOf(pieces)
        all == dedupeSpecs(buildDocSpecs(slugs))
        Included(spec) == spec.slug \in Range(only)
        filtered == SelectSeq(all, Included)
    IN  IF only = <<>> THEN all
        ELSE IF filtered = <<>> THEN all
        ELSE filtered

(***************************************************************************)
(* The OG image generator: the run.  opc is where the program is; the      *)
(* captures of Effect.forEach are taken one after the other.               *)
(***************************************************************************)
DocSlugChoices == {HomeSlug, <<"a">>, <<"b">>}

OnlyPieces == {<<>>, <<"a">>, <<" ", "a">>, HomeSlug, <<"z">>}

\* getAllDocs() by the slugs, and "".split(",") or longer: one piece at least.
DocSlugLists == UNION {[1..n -> DocSlugChoices] : n \in 0..MaxDocs}
OnlyLists == UNION {[1..n -> OnlyPieces] : n \in 1..MaxOnly}

OgInit ==
    /\ opc = "start"
    /\ docSlugs \in DocSlugLists
    /\ ogOnly \in OnlyLists
    /\ ogBaseUrl \in BOOLEAN
    /\ specs = <<>>
    /\ pending = 0
    /\ server = "none"
    /\ child = "none"
    /\ killed = FALSE
    /\ dirsRemoved = FALSE
    /\ ogExit = -1
    /\ CliIdle
    /\ WrapIdle
    /\ ListIdle
    /\ ColorIdle

\* Browser.layer: chromium.launch() resolves.
LaunchBrowser ==
    /\ opc = "start"
    /\ opc' = "pick"
    /\ UNCHANGED <<docSlugs, ogOnly, ogBaseUrl, specs, pending, server, child,
                   killed, dirsRemoved, ogExit>>
    /\ UNCHANGED <<cliVars, wrapVars, listVars, colorVars>>

\* Browser.layer: chromium.launch() rejects.
LaunchFails ==
    /\ opc = "start"
    /\ opc' = "failed"
    /\ UNCHANGED <<docSlugs, ogOnly, ogBaseUrl, specs, pending, server, child,
                   killed, dirsRemoved, ogExit>>
    /\ UNCHANGED <<cliVars, wrapVars, listVars, colorVars>>

\* program: mkdir, pickSpecs, and the return when there is no spec.
PickSpecs ==
    /\ opc = "pick"
    /\ specs' = pickSpecs(docSlugs, ogOnly)
    /\ pending' = Len(specs')
    /\ opc' = IF specs' = <<>> THEN "complete" ELSE "ensure"
    /\ UNCHANGED <<docSlugs, ogOnly, ogBaseUrl, server, child, killed,
                   dirsRemoved, ogExit>>
    /\ UNCHANGED <<cliVars, wrapVars, listVars, colorVars>>

\* ensureTemplateServer: OG_BASE_URL is set.
UseExplicitBaseUrl ==
    /\ opc = "ensure"
    /\ ogBaseUrl
    /\ server' = "reused"
    /\ opc' = "capturing"
    /\ UNCHANGED <<docSlugs, ogOnly, ogBaseUrl, specs, pending, child, killed,
                   dirsRemoved, ogExit>>
    /\ UNCHANGED <<cliVars, wrapVars, listVars, colorVars>>

\* ensureTemplateServer: a dev server answers at one of the candidates.
ReuseDevServer ==
    /\ opc = "ensure"
    /\ ~ogBaseUrl
    /\ server' = "reused"
    /\ opc' = "capturing"
    /\ UNCHANGED <<docSlugs, ogOnly, ogBaseUrl, specs, pending, child, killed,
                   dirsRemoved, ogExit>>
    /\ UNCHANGED <<cliVars, wrapVars, listVars, colorVars>>

\* startDevServer up to the race: no candidate answers, the child is spawned.
SpawnDevServer ==
    /\ opc = "ensure"
    /\ ~ogBaseUrl
    /\ child' = "running"
    /\ server' = "starting"
    /\ opc' = "waitServer"
    /\ UNCHANGED <<docSlugs, ogOnly, ogBaseUrl, specs, pending, killed,
                   dirsRemoved, ogExit>>
    /\ UNCHANGED <<cliVars, wrapVars, listVars, colorVars>>

\* raceFirst: waitForServer finds the server reachable; the handle is returned.
ServerReady ==
    /\ opc = "waitServer"
    /\ child = "running"
    /\ server' = "started"
    /\ opc' = "capturing"
    /\ UNCHANGED <<docSlugs, ogOnly, ogBaseUrl, specs, pending, child, killed,
                   dirsRemoved, ogExit>>
    /\ UNCHANGED <<cliVars, wrapVars, listVars, colorVars>>

\* raceFirst: waitForServer times out.
WaitTimesOut ==
    /\ opc = "waitServer"
    /\ child = "running"
    /\ opc' = "failed"
    /\ UNCHANGED <<docSlugs, ogOnly, ogBaseUrl, specs, pending, server, child,
                   killed, dirsRemoved, ogExit>>
    /\ UNCHANGED <<cliVars, wrapVars, listVars, colorVars>>

\* raceFirst: the child's exit event comes first.
ChildExitsEarly ==
    /\ opc = "waitServer"
    /\ child = "running"
    /\ child' = "exited"
    /\ opc' = "failed"
    /\ UNCHANGED <<docSlugs, ogOnly, ogBaseUrl, specs, pending, server, killed,
                   dirsRemoved, ogExit>>
    /\ UNCHANGED <<cliVars, wrapVars, listVars, colorVars>>

\* captureSpec: the page opens, loads from the server and is saved.
CaptureSucceeds ==
    /\ opc = "capturing"
    /\ pending > 0
    /\ server = "started" => child = "running"
    /\ pending' = pending - 1
    /\ UNCHANGED <<opc, docSlugs, ogOnly, ogBaseUrl, specs, server, child,
                   killed, dirsRemoved, ogExit>>
    /\ UNCHANGED <<cliVars, wrapVars, listVars, colorVars>>

\* captureSpec: newPage, goto or screenshot rejects; forEach fails.
CaptureFails ==
    /\ opc = "capturing"
    /\ pending > 0
    /\ opc' = "failed"
    /\ UNCHANGED <<docSlugs, ogOnly, ogBaseUrl, specs, pending, server, child,
                   killed, dirsRemoved, ogExit>>
    /\ UNCHANGED <<cliVars, wrapVars, listVars, colorVars>>

\* The spawned child exits on its own while the captures go on; nothing
\* listens to its exit event any more.
ChildExitsOnItsOwn ==
    /\ opc = "capturing"
    /\ child = "running"
    /\ child' = "exited"
    /\ UNCHANGED <<opc, docSlugs, ogOnly, ogBaseUrl, specs, pending, server,
                   killed, dirsRemoved, ogExit>>
    /\ UNCHANGED <<cliVars, wrapVars, listVars, colorVars>>

\* server.close of a reused server (Effect.void), then the last log.
CloseReusedServer ==
    /\ opc = "capturing"
    /\ pending = 0
    /\ server = "reused"
    /\ opc' = "complete"
    /\ UNCHANGED <<docSlugs, ogOnly, ogBaseUrl, specs, pending, server, child,
                   killed, dirsRemoved, ogExit>>
    /\ UNCHANGED <<cliVars, wrapVars, listVars, colorVars>>

\* handle.close up to the wait: child.kill("SIGTERM"), which sets
\* child.killed when the child still runs, then child.once("exit", ...).
CloseStartedServer ==
    /\ opc = "capturing"
    /\ pending = 0
    /\ server = "started"
    /\ killed' = (child = "running")
    /\ opc' = "awaitExit"
    /\ UNCHANGED <<docSlugs, ogOnly, ogBaseUrl, specs, pending, server, child,
                   dirsRemoved, ogExit>>
    /\ UNCHANGED <<cliVars, wrapVars, listVars, colorVars>>

\* The exit event reaches the listener of handle.close: the directories are
\* removed and "OG generation complete." is logged.
ChildExitEvent ==
    /\ opc = "awaitExit"
    /\ child = "running"
    /\ child' = "exited"
    /\ dirsRemoved' = TRUE
    /\ opc' = "complete"
    /\ UNCHANGED <<docSlugs, ogOnly, ogBaseUrl, specs, pending, server, killed,
                   ogExit>>
    /\ UNCHANGED <<cliVars, wrapVars, listVars, colorVars>>

\* The program is done: the browser is closed, the process ends with 0.
FinishRun ==
    /\ opc = "complete"
    /\ opc' = "exited"
    /\ ogExit' = 0
    /\ UNCHANGED <<docSlugs, ogOnly, ogBaseUrl, specs, pending, server, child,
                   killed, dirsRemoved>>
    /\ UNCHANGED <<cliVars, wrapVars, listVars, colorVars>>

\* catchAll: Console.error, process.exit(1).
ExitOnError ==
    /\ opc = "failed"
    /\ opc' = "exited"
    /\ ogExit' = 1
    /\ UNCHANGED <<docSlugs, ogOnly, ogBaseUrl, specs, pending, server, child,
                   killed, dirsRemoved>>
    /\ UNCHANGED <<cliVars, wrapVars, listVars, colorVars>>

OgNext ==
    \/ LaunchBrowser
    \/ LaunchFails
    \/ PickSpecs
    \/ UseExplicitBaseUrl
    \/ ReuseDevServer
    \/ SpawnDevServer
    \/ ServerReady
    \/ WaitTimesOut
    \/ ChildExitsEarly
    \/ CaptureSucceeds
    \/ CaptureFails
    \/ ChildExitsOnItsOwn
    \/ CloseReusedServer
    \/ CloseStartedServer
    \/ ChildExitEvent
    \/ FinishRun
    \/ ExitOnError

OgSpec == OgInit /\ [][OgNext]_vars

(***************************************************************************)
(* C16, C17, C18: the OG image generator.                                  *)
(***************************************************************************)
\* C16 as stated: when the run has ended, with 0 or with 1, a dev server
\* that the script started has been shut down (the child killed, the cache
\* and dist directories removed), and a reused server was never killed.
C16_StartedServerShutDown ==
    /\ (opc = "exited" /\ server = "started") => (killed /\ dirsRemoved)
    /\ server = "reused" => (~killed /\ child = "none")

\* C17 as stated, on finite runs: whenever the close of a started server
\* waits for the child's exit event, that event can still come, so that the
\* wait ends and the run goes on to "OG generation complete".
C17_CloseCompletes ==
    opc = "awaitExit" => ENABLED ChildExitEvent

\* The specs before de-duplication, and the first place of a slug in them.
AllSpecs == <<homeSpec>> \o getAllDocs(docSlugs)

FirstPlace(slug) ==
    CHOOSE k \in DOMAIN AllSpecs :
        /\ AllSpecs[k].slug = slug
        /\ \A j \in 1..(k - 1) : AllSpecs[j].slug # slug

\* The slugs the OG_ONLY filter names that some spec has.
MatchedSlugs ==
    {AllSpecs[k].slug : k \in DOMAIN AllSpecs}
        \cap {trim(ogOnly[i]) : i \in DOMAIN ogOnly}

\* C18: the picked specs have no slug twice; each is the first spec of its
\* slug in input order, and they stand in the order of the input; the spec
\* of slug "home" is the built-in one; the slugs are those the OG_ONLY
\* filter names, or all of them when the filter is empty or names none.
C18_PickedSpecs ==
    specs # <<>>
    => /\ \A i, j \in DOMAIN specs : i < j => specs[i].slug # specs[j].slug
       /\ \A i \in DOMAIN specs : specs[i] = AllSpecs[FirstPlace(specs[i].slug)]
       /\ \A i, j \in DOMAIN specs :
             i < j => FirstPlace(specs[i].slug) < FirstPlace(specs[j].slug)
       /\ \A i \in DOMAIN specs : specs[i].slug = HomeSlug => specs[i] = homeSpec
       /\ {specs[i].slug : i \in DOMAIN specs}
             = IF MatchedSlugs # {} THEN MatchedSlugs
               ELSE {AllSpecs[k].slug : k \in DOMAIN AllSpecs}

\* C18 witness: a document has the slug "home", another slug comes twice,
\* and the filter names both: the built-in home spec and the first "a" are
\* picked.
C18_Witness ==
    /\ docSlugs = <<HomeSlug, <<"a">>, <<"a">> >>
    /\ ogOnly = << <<" ", "a">>, HomeSlug >>
    /\ specs = <<homeSpec, [slug |-> <<"a">>, title |-> <<"t", "t">>]>>

====
